---- MODULE Spec2Model ----
(***************************************************************************)
(* A model of olysched (src/src/olysched/main.py): the ingestion of a day's *)
(* schedule payload, the grouping of its event units, the rendering of the  *)
(* Australian digest, and the name formatter.                               *)
(*                                                                          *)
(* Python strings that the code inspects or rewrites (competitor names,     *)
(* event unit names) are sequences of one-character strings, so that        *)
(* split, strip, lower, capitalize, re.sub and re.search are computed as    *)
(* the code computes them.  Strings the code only copies (discipline        *)
(* names, NOC codes, competitor codes) stay TLA+ strings.                   *)
(***************************************************************************)
EXTENDS Integers, Sequences, FiniteSets, TLC

VARIABLES entry, pc, payload, schedule, output, indexMd,
          name, formatted, reformatted, events, grouped

(***************************************************************************)
(* entry        the function under execution: "main" (main.py:212), or a    *)
(*              direct call, "format_name" (179) or "group_events" (201)    *)
(* pc           where that execution stands, or how it ended                *)
(* payload      the parsed response body, response.json() (103)             *)
(* schedule     what fetch_olympic_schedule returned to main (214)          *)
(* output       formatted_schedule as main prints it (217-218)              *)
(* indexMd      the content written to index.md (220-221)                   *)
(* name         the argument of format_name                                 *)
(* formatted    format_name(name); reformatted: format_name of that         *)
(* events       the argument of group_events; grouped: its result           *)
(***************************************************************************)
vars == <<entry, pc, payload, schedule, output, indexMd,
          name, formatted, reformatted, events, grouped>>

(***************************************************************************)
(* Bounds of the model.                                                     *)
(***************************************************************************)
\* Longest name drawn exhaustively over NameAlphabet.
MaxNameLen == 4
\* Most event units in a payload handed to main.
MaxUnits == 2
\* Most events in a direct call of group_events.
MaxGroupInput == 3

(***************************************************************************)
(* Characters.  CodeOrder lists the modelled characters by code point, the  *)
(* order Python's sorted() compares strings in.  Two non-ASCII code points  *)
(* are modelled: U+0149 (LATIN SMALL LETTER N PRECEDED BY APOSTROPHE),      *)
(* whose title-case mapping is the two characters U+02BC 'N', and U+02BC    *)
(* (MODIFIER LETTER APOSTROPHE), which has no case.                         *)
(***************************************************************************)
UpperChars == <<"A","B","C","D","E","F","G","H","I","J","K","L","M",
                "N","O","P","Q","R","S","T","U","V","W","X","Y","Z">>

LowerChars == <<"a","b","c","d","e","f","g","h","i","j","k","l","m",
                "n","o","p","q","r","s","t","u","v","w","x","y","z">>

DigitChars == <<"0","1","2","3","4","5","6","7","8","9">>

CodeOrder == <<" ", "-", "/">> \o DigitChars \o UpperChars \o LowerChars
             \o <<"U+0149", "U+02BC">>

Range(s) == {s[i] : i \in DOMAIN s}

IndexOf(s, c) == CHOOSE i \in DOMAIN s : s[i] = c

ord(c) == IndexOf(CodeOrder, c)

IsSpace(c) == c = " "

IsDigit(c) == c \in Range(DigitChars)

\* str.lower() on one character.
LowerChar(c) ==
    IF c \in Range(UpperChars) THEN LowerChars[IndexOf(UpperChars, c)] ELSE c

\* The title-case mapping of one character, as str.capitalize() applies it to
\* the first character of a string: it may yield more than one character.
TitleChar(c) ==
    IF c \in Range(LowerChars) THEN <<UpperChars[IndexOf(LowerChars, c)]>>
    ELSE IF c = "U+0149" THEN <<"U+02BC", "N">>
    ELSE <<c>>

\* str.lower()
lower(s) == [i \in DOMAIN s |-> LowerChar(s[i])]

\* str.capitalize(): the first character title-cased, the rest lower-cased.
capitalize(s) ==
    IF s = <<>> THEN <<>> ELSE TitleChar(Head(s)) \o lower(Tail(s))

\* str.strip(): leading and trailing whitespace removed.
RECURSIVE lstrip(_)
lstrip(s) ==
    IF s # <<>> /\ IsSpace(Head(s)) THEN lstrip(Tail(s)) ELSE s

RECURSIVE rstrip(_)
rstrip(s) ==
    IF s # <<>> /\ IsSpace(s[Len(s)]) THEN rstrip(SubSeq(s, 1, Len(s) - 1)) ELSE s

strip(s) == rstrip(lstrip(s))

\* str.split(sep) for a one-character separator: every field, empty ones kept.
RECURSIVE SplitFrom(_, _, _)
SplitFrom(s, sep, cur) ==
    IF s = <<>> THEN <<cur>>
    ELSE IF Head(s) = sep THEN <<cur>> \o SplitFrom(Tail(s), sep, <<>>)
    ELSE SplitFrom(Tail(s), sep, Append(cur, Head(s)))

split_on(s, sep) == SplitFrom(s, sep, <<>>)

\* str.split() without a separator: the maximal runs of non-whitespace.
RECURSIVE SplitWsFrom(_, _)
SplitWsFrom(s, cur) ==
    IF s = <<>> THEN (IF cur = <<>> THEN <<>> ELSE <<cur>>)
    ELSE IF IsSpace(Head(s))
         THEN (IF cur = <<>> THEN <<>> ELSE <<cur>>) \o SplitWsFrom(Tail(s), <<>>)
         ELSE SplitWsFrom(Tail(s), Append(cur, Head(s)))

split(s) == SplitWsFrom(s, <<>>)

\* sep.join(parts)
RECURSIVE join(_, _)
join(sep, parts) ==
    IF parts = <<>> THEN <<>>
    ELSE IF Len(parts) = 1 THEN parts[1]
    ELSE parts[1] \o sep \o join(sep, Tail(parts))

\* s < t in Python's string order (code points, a proper prefix first).
RECURSIVE StrLess(_, _)
StrLess(s, t) ==
    IF t = <<>> THEN FALSE
    ELSE IF s = <<>> THEN TRUE
    ELSE IF Head(s) = Head(t) THEN StrLess(Tail(s), Tail(t))
    ELSE ord(Head(s)) < ord(Head(t))

\* sorted(set): the strings of a finite set in ascending order.
RECURSIVE sorted(_)
sorted(S) ==
    IF S = {} THEN <<>>
    ELSE LET m == CHOOSE x \in S : \A y \in S \ {x} : StrLess(x, y)
         IN  <<m>> \o sorted(S \ {m})

(***************************************************************************)
(* format_name                                                              *)
(***************************************************************************)
Particles == { <<"v","o","n">>, <<"v","a","n">>, <<"d","e">>,
               <<"d","u">>, <<"l","a">>, <<"l","e">> }

\* The hyphen branch: each hyphen-separated word capitalized, rejoined by "-".
capitalize_hyphenated(part) ==
    join(<<"-">>, [i \in DOMAIN split_on(part, "-") |-> capitalize(split_on(part, "-")[i])])

\* A token formatted without the particle test.
ParticleUnchecked(part) ==
    IF "-" \in Range(part) THEN capitalize_hyphenated(part) ELSE capitalize(part)

\* One whitespace-separated token of a name.
format_part(part) ==
    IF lower(part) \in Particles THEN lower(part)
    ELSE IF "-" \in Range(part) THEN capitalize_hyphenated(part)
    ELSE capitalize(part)

capitalize_name(n) ==
    join(<<" ">>, [i \in DOMAIN split(n) |-> format_part(split(n)[i])])

format_name(x) ==
    IF "/" \in Range(x)
    THEN join(<<" ", "/", " ">>,
              [i \in DOMAIN split_on(x, "/") |-> capitalize_name(strip(split_on(x, "/")[i]))])
    ELSE capitalize_name(x)

(***************************************************************************)
(* The two regular expressions applied to an event unit name.               *)
(***************************************************************************)
HasPrefix(s, p) == Len(s) >= Len(p) /\ SubSeq(s, 1, Len(p)) = p

Drop(s, n) == SubSeq(s, n + 1, Len(s))

\* The longest run of digits s starts with: what a greedy \d+ consumes.
RECURSIVE TakeDigits(_)
TakeDigits(s) ==
    IF s # <<>> /\ IsDigit(Head(s)) THEN <<Head(s)>> \o TakeDigits(Tail(s)) ELSE <<>>

RaceSuffix == <<" ", "-", " ", "R", "a", "c", "e", " ">>

RaceWord == <<"R", "a", "c", "e", " ">>

\* re.sub(r" - Race \d+", "", s): every match, left to right, none overlapping.
RECURSIVE strip_race(_)
strip_race(s) ==
    IF s = <<>> THEN <<>>
    ELSE IF HasPrefix(s, RaceSuffix) /\ TakeDigits(Drop(s, Len(RaceSuffix))) # <<>>
         THEN strip_race(Drop(s, Len(RaceSuffix)
                                 + Len(TakeDigits(Drop(s, Len(RaceSuffix))))))
         ELSE <<Head(s)>> \o strip_race(Tail(s))

\* re.search(r"Race (\d+)", s).group(1) of the leftmost match; <<>> stands for
\* None (a match always captures at least one digit).
RECURSIVE race_number(_)
race_number(s) ==
    IF s = <<>> THEN <<>>
    ELSE IF HasPrefix(s, RaceWord) /\ TakeDigits(Drop(s, Len(RaceWord))) # <<>>
         THEN TakeDigits(Drop(s, Len(RaceWord)))
         ELSE race_number(Tail(s))

(***************************************************************************)
(* group_events: the insertion-ordered defaultdict(list) is a sequence of   *)
(* [key, events] entries in the order the keys were first inserted.         *)
(***************************************************************************)
group_key(event) == <<event.disciplineName, strip_race(event.eventUnitName)>>

HasKey(d, k) == \E i \in DOMAIN d : d[i].key = k

\* The event put in front of its group instead of behind it.
AddPrepending(d, event) ==
    IF HasKey(d, group_key(event))
    THEN [i \in DOMAIN d |->
            IF d[i].key = group_key(event)
            THEN [d[i] EXCEPT !.events = <<event>> \o @]
            ELSE d[i]]
    ELSE Append(d, [key |-> group_key(event), events |-> <<event>>])

\* grouped_events[key].append(event)
grouped_append(d, event) ==
    IF HasKey(d, group_key(event))
    THEN [i \in DOMAIN d |->
            IF d[i].key = group_key(event)
            THEN [d[i] EXCEPT !.events = Append(@, event)]
            ELSE d[i]]
    ELSE Append(d, [key |-> group_key(event), events |-> <<event>>])

RECURSIVE GroupFrom(_, _)
GroupFrom(d, evs) ==
    IF evs = <<>> THEN d ELSE GroupFrom(grouped_append(d, Head(evs)), Tail(evs))

group_events(evs) == GroupFrom(<<>>, evs)

(***************************************************************************)
(* Ingestion: EventUnit.filter_competitors and the pydantic constructors.   *)
(* A raw record states whether it carries the optional key at all.          *)
(***************************************************************************)
TBD == <<"T", "B", "D">>

\* comp.get("code") != "TBD" and comp.get("name") != "TBD"
filter_competitors(competitors) ==
    LET Known(comp) == comp.code # "TBD" /\ comp.name # TBD
    IN  SelectSeq(competitors, Known)

\* EventUnit(**values): the validator runs only when the key is present, and
\* the field defaults to an empty list.
EventUnit(raw) ==
    [disciplineName |-> raw.disciplineName,
     eventUnitName  |-> raw.eventUnitName,
     startDate      |-> raw.startDate,
     medalFlag      |-> raw.medalFlag,
     competitors    |-> IF raw.has_competitors
                        THEN filter_competitors(raw.competitors)
                        ELSE <<>>]

\* OlympicSchedule(**schedule_data), for a payload that has "units".
OlympicSchedule(data) ==
    [some |-> TRUE, units |-> [i \in DOMAIN data.units |-> EventUnit(data.units[i])]]

\* None, as fetch_olympic_schedule returns it after a RequestException.
NoSchedule == [some |-> FALSE, units |-> <<>>]

(***************************************************************************)
(* convert_to_aest followed by strftime('%H:%M').  A start date is a UTC    *)
(* instant: its hour and minute, and whether Sydney is on daylight time on  *)
(* that date (UTC+11) or not (UTC+10).                                      *)
(***************************************************************************)
convert_to_aest(d) ==
    [H |-> (d.hour + (IF d.dst THEN 11 ELSE 10)) % 24, M |-> d.minute]

(***************************************************************************)
(* format_schedule.  The markdown text is the sequence of its lines, each a *)
(* record naming the f-string that produced it and the values put in.       *)
(***************************************************************************)
NoDataText == <<[kind |-> "text", text |-> "No schedule data available."]>>

Header(today) == <<[kind |-> "h1", text |-> "Olympic Events"], [kind |-> "blank"],
                   [kind |-> "h2", day |-> today.day, month |-> today.month],
                   [kind |-> "blank"]>>

HasAus(event) == \E i \in DOMAIN event.competitors : event.competitors[i].noc = "AUS"

IsAus(comp) == comp.noc = "AUS"

NotAus(comp) == comp.noc # "AUS"

\* [comp for event in events for comp in event.competitors if comp.noc == "AUS"]
RECURSIVE aus_competitors(_)
aus_competitors(evs) ==
    IF evs = <<>> THEN <<>>
    ELSE SelectSeq(Head(evs).competitors, IsAus) \o aus_competitors(Tail(evs))

\* Any non-zero flag taken for a medal.
MedalTruthy(evs) == \E i \in DOMAIN evs : evs[i].medalFlag # 0

\* any(event.medalFlag == 1 for event in events)

medal_event(evs) == \E i \in DOMAIN evs : evs[i].medalFlag = 1

\* One entry per event, an empty one for an event without a race number.
RaceNumbersAll(evs) == [i \in DOMAIN evs |-> race_number(evs[i].eventUnitName)]

\* The race numbers of the events that have one, in event order.
RECURSIVE race_numbers(_)
race_numbers(evs) ==
    IF evs = <<>> THEN <<>>
    ELSE (IF race_number(Head(evs).eventUnitName) # <<>>
          THEN <<race_number(Head(evs).eventUnitName)>> ELSE <<>>)
         \o race_numbers(Tail(evs))

\* The heading of a group, and its races line when it has several events.
heading_lines(key, evs, australian_events) ==
    IF Len(australian_events) > 1
    THEN <<[kind |-> "h3range",
            start |-> convert_to_aest(evs[1].startDate),
            end |-> convert_to_aest(evs[Len(evs)].startDate),
            medal |-> medal_event(evs), discipline |-> key[1], event_name |-> key[2]],
           [kind |-> "races", numbers |-> race_numbers(evs)]>>
    ELSE <<[kind |-> "h3",
            start |-> convert_to_aest(evs[1].startDate),
            medal |-> medal_event(evs), discipline |-> key[1], event_name |-> key[2]]>>

\* The test with one of its two conjuncts forgotten.
TwoCompetitorsOnly(australian_competitors, evs) ==
    Len(evs[1].competitors) = 2

OneAustralianOnly(australian_competitors, evs) ==
    Len(australian_competitors) = 1

\* len(australian_competitors) == 1 and len(events[0].competitors) == 2
is_head_to_head(australian_competitors, evs) ==
    Len(australian_competitors) = 1 /\ Len(evs[1].competitors) = 2

\* The team placeholder compared with the unformatted name.
RawNameCompared(aus_comp, opponents) ==
    IF opponents = <<>> THEN [raised |-> TRUE, lines |-> <<>>]
    ELSE IF aus_comp.name = <<"A","u","s","t","r","a","l","i","a">>
    THEN [raised |-> FALSE,
          lines |-> <<[kind |-> "vs_team", opp_country |-> opponents[1].noc]>>]
    ELSE [raised |-> FALSE,
          lines |-> <<[kind |-> "vs",
                       aus_name |-> format_name(aus_comp.name),
                       opp_name |-> format_name(opponents[1].name),
                       opp_country |-> opponents[1].noc]>>]

\* The head-to-head line; raised when next() finds no opponent.
head_to_head_line(aus_comp, opponents) ==
    IF opponents = <<>> THEN [raised |-> TRUE, lines |-> <<>>]
    ELSE IF format_name(aus_comp.name) = <<"A","u","s","t","r","a","l","i","a">>
    THEN [raised |-> FALSE,
          lines |-> <<[kind |-> "vs_team", opp_country |-> opponents[1].noc]>>]
    ELSE [raised |-> FALSE,
          lines |-> <<[kind |-> "vs",
                       aus_name |-> format_name(aus_comp.name),
                       opp_name |-> format_name(opponents[1].name),
                       opp_country |-> opponents[1].noc]>>]

\* for competitor in sorted(set(comp.name ...)): "* {format_name(competitor)}"
bullet_lines(australian_competitors) ==
    LET names == sorted({australian_competitors[i].name :
                            i \in DOMAIN australian_competitors})
    IN  [i \in DOMAIN names |-> [kind |-> "bullet", name |-> format_name(names[i])]]

competitor_lines(australian_competitors, evs) ==
    IF is_head_to_head(australian_competitors, evs)
    THEN head_to_head_line(australian_competitors[1],
                           SelectSeq(evs[1].competitors, NotAus))
    ELSE [raised |-> FALSE, lines |-> bullet_lines(australian_competitors)]

\* One iteration of the loop over grouped_events.items().
format_group(g) ==
    LET australian_competitors == aus_competitors(g.events)
        australian_events == SelectSeq(g.events, HasAus)
        comp == competitor_lines(australian_competitors, g.events)
    IN  IF australian_competitors = <<>> THEN [raised |-> FALSE, lines |-> <<>>]
        ELSE [raised |-> comp.raised,
              lines |-> heading_lines(g.key, g.events, australian_events)
                        \o comp.lines \o <<[kind |-> "blank"]>>]

RECURSIVE format_groups(_)
format_groups(groups) ==
    IF groups = <<>> THEN [raised |-> FALSE, lines |-> <<>>]
    ELSE LET first == format_group(Head(groups))
             rest == format_groups(Tail(groups))
         IN  IF first.raised THEN [raised |-> TRUE, lines |-> <<>>]
             ELSE [raised |-> rest.raised, lines |-> first.lines \o rest.lines]

format_schedule(units, today) ==
    IF units = <<>> THEN [raised |-> FALSE, lines |-> NoDataText]
    ELSE LET body == format_groups(group_events(SelectSeq(units, HasAus)))
         IN  [raised |-> body.raised, lines |-> Header(today) \o body.lines]

(***************************************************************************)
(* The inputs the model draws.                                              *)
(***************************************************************************)
SeqsUpTo(S, n) == UNION {[1..k -> S] : k \in 0..n}

Heat == <<"H","e","a","t">>

Final == <<"F","i","n","a","l">>

HeatRace1 == Heat \o RaceSuffix \o <<"1">>

HeatRace2 == Heat \o RaceSuffix \o <<"2">>

HeatRace12 == Heat \o RaceSuffix \o <<"1","2">>

HeatRace1Race2 == Heat \o RaceSuffix \o <<"1">> \o RaceSuffix \o <<"2">>

\* Competitor names as the API may spell them.
JaneDoe == <<"j","a","n","e"," ","d","o","e">>

JaneDoeUpper == <<"J","A","N","E"," ","D","O","E">>

JonRoeUpper == <<"J","O","N"," ","R","O","E">>

JohnSmith == <<"j","o","h","n"," ","s","m","i","t","h">>

AustraliaUpper == <<"A","U","S","T","R","A","L","I","A">>

Australia == <<"A","u","s","t","r","a","l","i","a">>

Comp(noc, nm) == [code |-> "c", noc |-> noc, name |-> nm]

\* The competitor lists of a raw event unit.
LineUps ==
    { <<Comp("AUS", AustraliaUpper), Comp("USA", JohnSmith)>>,
      <<Comp("AUS", JaneDoe), Comp("USA", JohnSmith)>>,
      <<Comp("USA", JohnSmith), Comp("AUS", JaneDoe)>>,
      <<Comp("AUS", JaneDoe)>>,
      <<Comp("AUS", JaneDoe), Comp("USA", JohnSmith), Comp("NZL", JonRoeUpper)>>,
      <<Comp("AUS", JaneDoe), Comp("AUS", JaneDoeUpper)>>,
      <<Comp("AUS", JonRoeUpper), Comp("AUS", JaneDoe), Comp("USA", JohnSmith)>>,
      <<Comp("USA", JohnSmith), Comp("NZL", JonRoeUpper)>>,
      <<Comp("AUS", JaneDoe), Comp("USA", JohnSmith),
        [code |-> "TBD", noc |-> "NZL", name |-> TBD]>>,
      <<Comp("AUS", JaneDoe), [code |-> "c", noc |-> "USA", name |-> TBD]>>,
      <<>> }

StartDates == { [hour |-> 9, minute |-> 0, dst |-> FALSE],
                [hour |-> 15, minute |-> 30, dst |-> FALSE] }

MedalFlags == {0, 1, 2}

UnitNames == {Heat, HeatRace2, Final}

\* Raw event units: one family varies the name, the start and the medal flag
\* of an event with one Australian, the other varies the competitors (a
\* record may also lack the competitors key).
RawEvents ==
    [disciplineName : {"Sailing"}, eventUnitName : UnitNames,
     startDate : StartDates, medalFlag : MedalFlags,
     has_competitors : {TRUE}, competitors : {<<Comp("AUS", JaneDoe)>>}]
    \cup
    [disciplineName : {"Sailing", "Swimming"}, eventUnitName : {Heat},
     startDate : {[hour |-> 9, minute |-> 0, dst |-> FALSE]}, medalFlag : {0},
     has_competitors : {TRUE}, competitors : LineUps]
    \cup
    [disciplineName : {"Sailing"}, eventUnitName : {Heat},
     startDate : {[hour |-> 9, minute |-> 0, dst |-> FALSE]}, medalFlag : {0},
     has_competitors : {FALSE}, competitors : {<<>>}]

NoPayload == [has_units |-> FALSE, units |-> <<>>]

\* The parsed response body: "units" may be missing.
Payloads ==
    {NoPayload} \cup {[has_units |-> TRUE, units |-> u] : u \in SeqsUpTo(RawEvents, MaxUnits)}

ReportDate == [day |-> 27, month |-> "July"]

NameAlphabet == {"d", "e", "E", " ", "-", "/", "U+0149"}

SampleNames ==
    { <<"v","a","n"," ","d","e","r"," ","b","e","r","g">>,
      <<"B","E","R","G"," ","V","A","N">>,
      <<"l","e"," ","d","e"," ","L","A">>,
      <<"s","m","i","t","h","-","j","o","n","e","s">>,
      <<"a","/","b">>,
      <<" ","d","o","e"," "," ","j"," ","/","r","o","e"," ","k">> }

Names == SeqsUpTo(NameAlphabet, MaxNameLen) \cup SampleNames

GroupUnitNames == {Heat, HeatRace1, HeatRace12, HeatRace1Race2, Final}

\* The events of a direct call of group_events, each with its own id.
GroupInputs ==
    { [i \in DOMAIN f |->
          [disciplineName |-> f[i][1], eventUnitName |-> f[i][2], id |-> i]] :
      f \in SeqsUpTo({"Sailing", "Swimming"} \X GroupUnitNames, MaxGroupInput) }

(***************************************************************************)
(* The state machine.  entry is the function under execution: main, or a    *)
(* direct call of format_name or of group_events.                           *)
(***************************************************************************)
Init ==
    /\ pc = "start"
    /\ schedule = NoSchedule
    /\ output = <<>>
    /\ indexMd = <<>>
    /\ formatted = <<>>
    /\ reformatted = <<>>
    /\ grouped = <<>>
    /\ \/ entry = "main" /\ payload \in Payloads /\ name = <<>> /\ events = <<>>
       \/ entry = "format_name" /\ payload = NoPayload /\ name \in Names /\ events = <<>>
       \/ entry = "group_events" /\ payload = NoPayload /\ name = <<>>
          /\ events \in GroupInputs

\* OlympicSchedule.fetch_olympic_schedule: the request fails and None is
\* returned, or the body is validated, which raises when "units" is missing
\* (a ValidationError is no RequestException: it is not caught).
fetch_olympic_schedule ==
    /\ entry = "main" /\ pc = "start"
    /\ \/ /\ schedule' = NoSchedule
          /\ pc' = "fetched"
       \/ /\ payload.has_units
          /\ schedule' = OlympicSchedule(payload)
          /\ pc' = "fetched"
       \/ /\ ~payload.has_units
          /\ schedule' = schedule
          /\ pc' = "raised ValidationError"
    /\ UNCHANGED <<entry, payload, output, indexMd, name, formatted, reformatted,
                   events, grouped>>

\* main, "if schedule:": the digest is formatted, printed and written.
main_write ==
    /\ entry = "main" /\ pc = "fetched" /\ schedule.some
    /\ LET r == format_schedule(schedule.units, ReportDate)
       IN  IF r.raised
           THEN pc' = "raised StopIteration" /\ UNCHANGED <<output, indexMd>>
           ELSE pc' = "done" /\ output' = r.lines /\ indexMd' = r.lines
    /\ UNCHANGED <<entry, payload, schedule, name, formatted, reformatted,
                   events, grouped>>

\* main, "else:": nothing is written.
main_failed ==
    /\ entry = "main" /\ pc = "fetched" /\ ~schedule.some
    /\ pc' = "failed to fetch"
    /\ UNCHANGED <<entry, payload, schedule, output, indexMd, name, formatted,
                   reformatted, events, grouped>>

call_format_name ==
    /\ entry = "format_name" /\ pc = "start"
    /\ formatted' = format_name(name)
    /\ pc' = "formatted"
    /\ UNCHANGED <<entry, payload, schedule, output, indexMd, name, reformatted,
                   events, grouped>>

\* The result formatted a second time.
call_format_name_again ==
    /\ entry = "format_name" /\ pc = "formatted"
    /\ reformatted' = format_name(formatted)
    /\ pc' = "reformatted"
    /\ UNCHANGED <<entry, payload, schedule, output, indexMd, name, formatted,
                   events, grouped>>

call_group_events ==
    /\ entry = "group_events" /\ pc = "start"
    /\ grouped' = group_events(events)
    /\ pc' = "grouped"
    /\ UNCHANGED <<entry, payload, schedule, output, indexMd, name, formatted,
                   reformatted, events>>

Next ==
    \/ fetch_olympic_schedule
    \/ main_write
    \/ main_failed
    \/ call_format_name
    \/ call_format_name_again
    \/ call_group_events

Spec == Init /\ [][Next]_vars

(***************************************************************************)
(* Reading the written digest back: the blocks of the rendered groups, and  *)
(* for each block the events of the schedule its heading stands for.        *)
(***************************************************************************)
RECURSIVE BlocksFrom(_, _)
BlocksFrom(lines, cur) ==
    IF lines = <<>> THEN <<>>
    ELSE IF Head(lines).kind = "blank" THEN <<cur>> \o BlocksFrom(Tail(lines), <<>>)
    ELSE BlocksFrom(Tail(lines), Append(cur, Head(lines)))

Rendered == entry = "main" /\ pc = "done" /\ schedule.units # <<>>

\* The group blocks of the digest, after the report header.
Blocks ==
    IF Rendered THEN BlocksFrom(Drop(output, Len(Header(ReportDate))), <<>>) ELSE <<>>

IsRange(b) == b[1].kind = "h3range"

\* The competitor lines of a block: what follows its heading and races line.
CompLines(b) == IF IsRange(b) THEN Drop(b, 2) ELSE Drop(b, 1)

IsVersus(b) == \E i \in DOMAIN CompLines(b) : CompLines(b)[i].kind \in {"vs", "vs_team"}

AllBullets(b) == \A i \in DOMAIN CompLines(b) : CompLines(b)[i].kind = "bullet"

\* The Australian events of the schedule with the block's discipline and name.
GroupOf(b) ==
    LET InGroup(e) == /\ HasAus(e)
                      /\ e.disciplineName = b[1].discipline
                      /\ strip_race(e.eventUnitName) = b[1].event_name
    IN  SelectSeq(schedule.units, InGroup)

AusOf(evs) == aus_competitors(evs)

UnitsNamed(n1, n2) ==
    /\ Rendered
    /\ Len(schedule.units) = 2
    /\ HasAus(schedule.units[1]) /\ HasAus(schedule.units[2])
    /\ schedule.units[1].disciplineName = schedule.units[2].disciplineName
    /\ {schedule.units[1].eventUnitName, schedule.units[2].eventUnitName} = {n1, n2}

(***************************************************************************)
(* The claims.                                                              *)
(***************************************************************************)
FromMissingOrEmptyUnits == entry = "main" /\ (~payload.has_units \/ payload.units = <<>>)

\* C1: a payload whose "units" is missing or empty is "no data": the run never
\* ends in an error, and the text written is exactly the sentinel.
C1_MissingOrEmptyIsNoData ==
    FromMissingOrEmptyUnits =>
        /\ pc # "raised ValidationError"
        /\ pc = "done" => output = NoDataText

\* The bullet names of a block.
BulletNames(b) == [i \in DOMAIN CompLines(b) |-> CompLines(b)[i].name]

\* C2: in the multi-competitor branch a group's bullet lines are one line per
\* distinct formatted Australian name, in ascending order of the formatted
\* names, so no two bullet lines of a group are equal.
C2_BulletsDistinctAndSorted ==
    \A k \in DOMAIN Blocks :
        AllBullets(Blocks[k]) =>
            /\ Range(BulletNames(Blocks[k]))
                 = {format_name(AusOf(GroupOf(Blocks[k]))[i].name) :
                       i \in DOMAIN AusOf(GroupOf(Blocks[k]))}
            /\ \A i, j \in DOMAIN BulletNames(Blocks[k]) :
                   i < j => StrLess(BulletNames(Blocks[k])[i], BulletNames(Blocks[k])[j])

\* The position in the input of the first event with key k.
FirstWithKey(k) ==
    CHOOSE i \in DOMAIN events :
        /\ group_key(events[i]) = k
        /\ \A j \in 1..(i - 1) : group_key(events[j]) # k

RECURSIVE SumLen(_)
SumLen(d) == IF d = <<>> THEN 0 ELSE Len(Head(d).events) + SumLen(Tail(d))

\* C3: group_events is a stable partition: each key holds exactly the input
\* events with that key in input order, the keys come in the order of their
\* first member, the names of the keys carry no race suffix, and the group
\* sizes add up to the input length.
C3_StablePartition ==
    (entry = "group_events" /\ pc = "grouped") =>
        /\ \A i \in DOMAIN grouped :
              LET HasThisKey(e) == group_key(e) = grouped[i].key
              IN  /\ grouped[i].events = SelectSeq(events, HasThisKey)
                  /\ grouped[i].events # <<>>
                  /\ grouped[i].key[2] \in {Heat, Final}
        /\ \A i, j \in DOMAIN grouped :
              i < j => /\ grouped[i].key # grouped[j].key
                       /\ FirstWithKey(grouped[i].key) < FirstWithKey(grouped[j].key)
        /\ \A i \in DOMAIN events : HasKey(grouped, group_key(events[i]))
        /\ SumLen(grouped) = Len(events)

\* Three events, two of one key around one of another, one name with two suffixes.
C3_Witness ==
    /\ entry = "group_events" /\ pc = "grouped"
    /\ Len(events) = 3 /\ Len(grouped) = 2
    /\ Len(grouped[1].events) = 2
    /\ grouped[1].events[1].id = 1 /\ grouped[1].events[2].id = 3
    /\ events[3].eventUnitName = HeatRace1Race2
    /\ events[1].eventUnitName = Heat

\* C4: format_name is idempotent on every name, and maps "" to "".
C4_Idempotent ==
    /\ (entry = "format_name" /\ pc = "reformatted") => reformatted = formatted
    /\ (entry = "format_name" /\ pc # "start" /\ name = <<>>) => formatted = <<>>

\* The same on the names without U+0149, which is where it holds.
C4_IdempotentWithoutU0149 ==
    (entry = "format_name" /\ pc = "reformatted" /\ "U+0149" \notin Range(name))
        => reformatted = formatted

VanDerBerg == <<"v","a","n"," ","d","e","r"," ","b","e","r","g">>

\* C5 as stated: format_name("van der berg") is "van der Berg".
C5_VanDerBergAsStated ==
    (entry = "format_name" /\ pc # "start" /\ name = VanDerBerg)
        => formatted = <<"v","a","n"," ","d","e","r"," ","B","e","r","g">>

\* C5, amended: format_name("van der berg") is "van Der Berg"; in a name
\* without "/" a token whose lowercase is one of von, van, de, du, la, le comes
\* out lowercase at any position, and every other token ("der" too) comes out
\* capitalized (a hyphenated one word by word).
C5_ParticlesLowercase ==
    (entry = "format_name" /\ pc # "start") =>
        /\ name = VanDerBerg
             => formatted = <<"v","a","n"," ","D","e","r"," ","B","e","r","g">>
        /\ "/" \notin Range(name) =>
             /\ Len(split(formatted)) = Len(split(name))
             /\ \A i \in DOMAIN split(name) :
                   LET tok == split(name)[i]
                       res == split(formatted)[i]
                   IN  IF lower(tok) \in Particles THEN res = lower(tok)
                       ELSE /\ res[1] \notin Range(LowerChars)
                            /\ "-" \notin Range(tok) => res = capitalize(tok)

C5_Witness ==
    /\ entry = "format_name" /\ pc = "formatted"
    /\ name = VanDerBerg
    /\ formatted = <<"v","a","n"," ","D","e","r"," ","B","e","r","g">>

\* C6 as stated: two Australian events of one discipline named
\* "Heat - Race 2" and "Final" are rendered in one group whose races line
\* holds only "2".
C6_HeatAndFinalAsStated ==
    UnitsNamed(HeatRace2, Final) =>
        /\ Len(Blocks) = 1
        /\ IsRange(Blocks[1])
        /\ Blocks[1][2] = [kind |-> "races", numbers |-> <<<<"2">>>>]

\* The events of a group whose unit name has a race number.
Numbered(evs) ==
    LET HasNumber(e) == race_number(e.eventUnitName) # <<>>
    IN  SelectSeq(evs, HasNumber)

\* C6, amended: two Australian events of one discipline named "Heat - Race 2"
\* and "Heat" are rendered in one group "Heat" whose races line holds only
\* "2" and whose heading runs from the start of the first to the start of the
\* last of the two; in every group of several events the races line lists the
\* numbers of the events that have one, in order, and the heading's range is
\* taken from the first and the last event, numbered or not.  Events named
\* "Heat - Race 2" and "Final" have different keys and make two groups, each
\* without a races line.
C6_UnnumberedEventsInGroup ==
    /\ UnitsNamed(HeatRace2, Heat) =>
          /\ Len(Blocks) = 1
          /\ IsRange(Blocks[1])
          /\ Blocks[1][1].event_name = Heat
          /\ Blocks[1][1].start = convert_to_aest(schedule.units[1].startDate)
          /\ Blocks[1][1].end = convert_to_aest(schedule.units[2].startDate)
          /\ Blocks[1][2] = [kind |-> "races", numbers |-> <<<<"2">>>>]
    /\ UnitsNamed(HeatRace2, Final) =>
          /\ Len(Blocks) = 2
          /\ ~IsRange(Blocks[1]) /\ ~IsRange(Blocks[2])
    /\ \A k \in DOMAIN Blocks :
          LET evs == GroupOf(Blocks[k])
          IN  /\ IsRange(Blocks[k]) <=> Len(evs) > 1
              /\ Blocks[k][1].start = convert_to_aest(evs[1].startDate)
              /\ IsRange(Blocks[k]) =>
                    /\ Blocks[k][1].end = convert_to_aest(evs[Len(evs)].startDate)
                    /\ Blocks[k][2].kind = "races"
                    /\ Blocks[k][2].numbers =
                         [i \in DOMAIN Numbered(evs) |->
                             race_number(Numbered(evs)[i].eventUnitName)]

\* "Heat - Race 2" at 09:00 UTC, then "Heat" at 15:30 UTC: one group, 19:00 - 01:30.
C6_Witness ==
    /\ UnitsNamed(HeatRace2, Heat)
    /\ schedule.units[2].eventUnitName = Heat
    /\ Len(Blocks) = 1
    /\ Blocks[1][1].kind = "h3range"
    /\ Blocks[1][1].start = [H |-> 19, M |-> 0]
    /\ Blocks[1][1].end = [H |-> 1, M |-> 30]
    /\ Blocks[1][2].numbers = <<<<"2">>>>

\* A group of one event with two competitors, one Australian and one not.
IsDuel(evs) ==
    /\ Len(evs) = 1
    /\ Len(evs[1].competitors) = 2
    /\ Len(SelectSeq(evs[1].competitors, IsAus)) = 1

\* C7: a group of one event with exactly two competitors, one of them
\* Australian, has the single competitor line "* AUS vs <NOC>" when the
\* formatted Australian name is "Australia", and otherwise the line
\* "* <name> (AUS) vs <opponent name> (<NOC>)".
C7_HeadToHeadLine ==
    \A k \in DOMAIN Blocks :
        IsDuel(GroupOf(Blocks[k])) =>
            LET comps == GroupOf(Blocks[k])[1].competitors
                aus == CHOOSE c \in Range(comps) : c.noc = "AUS"
                opp == CHOOSE c \in Range(comps) : c.noc # "AUS"
            IN  IF format_name(aus.name) = Australia
                THEN CompLines(Blocks[k])
                       = <<[kind |-> "vs_team", opp_country |-> opp.noc]>>
                ELSE CompLines(Blocks[k])
                       = <<[kind |-> "vs", aus_name |-> format_name(aus.name),
                            opp_name |-> format_name(opp.name),
                            opp_country |-> opp.noc]>>

\* "AUSTRALIA" v USA in one group, an individual after her opponent in another.
C7_Witness ==
    /\ Len(Blocks) = 2
    /\ IsDuel(GroupOf(Blocks[1])) /\ IsDuel(GroupOf(Blocks[2]))
    /\ GroupOf(Blocks[1])[1].competitors[1].name = AustraliaUpper
    /\ CompLines(Blocks[1]) = <<[kind |-> "vs_team", opp_country |-> "USA"]>>
    /\ GroupOf(Blocks[2])[1].competitors[2].noc = "AUS"
    /\ CompLines(Blocks[2])[1].kind = "vs"
    /\ CompLines(Blocks[2])[1].opp_name = <<"J","o","h","n"," ","S","m","i","t","h">>

\* C8: a group is rendered head-to-head exactly when it has one Australian
\* competitor over all its events and its first event has two competitors;
\* every other group is rendered with bullet lines.
C8_HeadToHeadIff ==
    \A k \in DOMAIN Blocks :
        LET evs == GroupOf(Blocks[k])
            duel == Len(AusOf(evs)) = 1 /\ Len(evs[1].competitors) = 2
        IN  /\ IsVersus(Blocks[k]) <=> duel
            /\ ~duel => AllBullets(Blocks[k]) /\ CompLines(Blocks[k]) # <<>>
            /\ duel => Len(CompLines(Blocks[k])) = 1

\* Sole events with one Australian among three and one Australian alone.
C8_Witness ==
    /\ Len(Blocks) = 2
    /\ Len(GroupOf(Blocks[1])) = 1 /\ Len(GroupOf(Blocks[2])) = 1
    /\ Len(AusOf(GroupOf(Blocks[1]))) = 1 /\ Len(AusOf(GroupOf(Blocks[2]))) = 1
    /\ Len(GroupOf(Blocks[1])[1].competitors) = 3
    /\ Len(GroupOf(Blocks[2])[1].competitors) = 1
    /\ AllBullets(Blocks[1]) /\ AllBullets(Blocks[2])

\* C9: a group's title carries the medal glyph exactly when one of its events
\* has medalFlag 1; flags other than 1 leave the title unprefixed.
C9_MedalGlyph ==
    \A k \in DOMAIN Blocks :
        Blocks[k][1].medal <=>
            \E i \in DOMAIN GroupOf(Blocks[k]) : GroupOf(Blocks[k])[i].medalFlag = 1

\* A group whose event has flag 2, without the glyph, before a group whose
\* event has flag 1, with it.
C9_Witness ==
    /\ Len(Blocks) = 2
    /\ GroupOf(Blocks[1])[1].medalFlag = 2 /\ ~Blocks[1][1].medal
    /\ GroupOf(Blocks[2])[1].medalFlag = 1 /\ Blocks[2][1].medal

\* C10: the opponent lookup never fails, and a head-to-head line stands only
\* in a group of one event, which has a non-Australian competitor, under a
\* heading without a time range and without a races line.
C10_OpponentAlwaysFound ==
    /\ pc # "raised StopIteration"
    /\ \A k \in DOMAIN Blocks :
          IsVersus(Blocks[k]) =>
              /\ Len(GroupOf(Blocks[k])) = 1
              /\ \E i \in DOMAIN GroupOf(Blocks[k])[1].competitors :
                     GroupOf(Blocks[k])[1].competitors[i].noc # "AUS"
              /\ Blocks[k][1].kind = "h3"
              /\ \A i \in DOMAIN Blocks[k] : Blocks[k][i].kind # "races"

\* A head-to-head block beside a group of two Australians and nobody else,
\* whose event has two competitors and no opponent.
C10_Witness ==
    /\ Len(Blocks) = 2
    /\ IsVersus(Blocks[1])
    /\ Len(GroupOf(Blocks[2])[1].competitors) = 2
    /\ Len(AusOf(GroupOf(Blocks[2]))) = 2
    /\ AllBullets(Blocks[2])

====
